---- MODULE Spec2Model ----
(***************************************************************************)
(* vosk-cli / vosk-tui: microphone capture -> frame queue -> recognizer    *)
(* -> terminal dashboard, and the model resolver of the two entry points.  *)
(*                                                                         *)
(* Strings are sequences of one-character strings, so that strip, split,   *)
(* removeprefix and the pathlib operations are computed as Python computes *)
(* them.  variant = "cli" is src/vosk_cli, variant = "tui" is src/vosk_tui *)
(* (the extended variant, with the model hub).                             *)
(***************************************************************************)
EXTENDS Integers, Sequences, FiniteSets, TLC

VARIABLES
    variant,              \* which entry point runs: "cli" or "tui"
    argv,                 \* the command line: [list_devices, samplerate, model]
    local_paths,          \* the identifiers that exist as local filesystem paths
    hub,                  \* the model hub: repository id -> set of file paths in it
    dir_entries,          \* what the extraction directory holds after extractall
    pc,                   \* position of the main thread
    args,                 \* argparse.Namespace after get_args
    model,                \* how Model(...) was constructed
    hf_calls,             \* the calls made to huggingface_hub, in order
    resolution,           \* the locals of load_model_from_huggingface
    raised,               \* the exception that ended the process, if any
    layout,               \* the panes of the dashboard
    stream,               \* sd.RawInputStream: "none", "open", "closed"
    live,                 \* rich Live: "none", "started", "stopped"
    q,                    \* queue.Queue of raw audio blocks
    data,                 \* the block returned by q.get()
    completed_sentences,  \* the sentence log
    result,               \* the recognizer's result for the last block fed
    events,               \* externally visible effects, in order
    exit_code,            \* process exit status, None while running
    enqueued,             \* history: blocks the callback has put, in order
    fed,                  \* history: blocks passed to AcceptWaveform, in order
    lastPartial,          \* history: text of the most recent Partial result
    interrupted_at        \* history: pc at which KeyboardInterrupt arrived

vars == <<variant, argv, local_paths, hub, dir_entries, pc, args, model, hf_calls,
          resolution, raised, layout, stream, live, q, data, completed_sentences,
          result, events, exit_code, enqueued, fed, lastPartial, interrupted_at>>

env == <<variant, argv, local_paths, hub, dir_entries>>

----------------------------------------------------------------------------
(* Bounds and program constants *)

\* number of audio blocks the capture thread delivers in a run
MaxBlocks == 4

\* number of audio blocks delivered in the long-session specification
MaxLogBlocks == 32

MAX_SENTENCES == 30

----------------------------------------------------------------------------
(* Values *)

\* an optional value is a sequence: <<>> is Python's None, <<x>> is the value x
None == <<>>
Some(x) == <<x>>

Range(s) == {s[i] : i \in 1..Len(s)}

Whitespace == {" ", "\t", "\n"}

SlashStr == <<"/">>
TarGzStr == <<".", "t", "a", "r", ".", "g", "z">>

EnUs == <<"e", "n", "-", "u", "s">>
Nl == <<"n", "l">>
RepoUR == <<"u", "/", "r">>
FileA == <<"a">> \o TarGzStr
FileB == <<"b">> \o TarGzStr
FileReadme == <<"R", ".", "m", "d">>
FileSubC == <<"s", "/", "c">> \o TarGzStr
RepoURFileA == RepoUR \o <<":">> \o FileA
RepoURFileB == RepoUR \o <<":">> \o FileB

\* files a hub repository may hold, in the order HfFileSystem lists them
HubFileOrder == <<FileReadme, FileA, FileB, FileSubC>>

\* where hf_hub_download stores the files of a repository
CacheDir == <<"c">>

DirM == [name |-> <<"m">>, is_dir |-> TRUE]
DirN == [name |-> <<"n">>, is_dir |-> TRUE]
FileX == [name |-> <<"x">>, is_dir |-> FALSE]

----------------------------------------------------------------------------
(* Python string and path operations *)

RECURSIVE lstrip(_)
lstrip(s) ==
    IF s # <<>> /\ Head(s) \in Whitespace THEN lstrip(Tail(s)) ELSE s

RECURSIVE rstrip(_)
rstrip(s) ==
    IF s # <<>> /\ s[Len(s)] \in Whitespace
    THEN rstrip(SubSeq(s, 1, Len(s) - 1))
    ELSE s

strip(s) == rstrip(lstrip(s))

startswith(s, p) == Len(s) >= Len(p) /\ SubSeq(s, 1, Len(p)) = p

endswith(s, p) ==
    Len(s) >= Len(p) /\ SubSeq(s, Len(s) - Len(p) + 1, Len(s)) = p

removeprefix(s, p) ==
    IF startswith(s, p) THEN SubSeq(s, Len(p) + 1, Len(s)) ELSE s

\* index of the first / last occurrence of character c in s, 0 if none
find(s, c) ==
    IF c \in Range(s)
    THEN CHOOSE i \in 1..Len(s) : s[i] = c /\ \A j \in 1..(i - 1) : s[j] # c
    ELSE 0

rfind(s, c) ==
    IF c \in Range(s)
    THEN CHOOSE i \in 1..Len(s) : s[i] = c /\ \A j \in (i + 1)..Len(s) : s[j] # c
    ELSE 0

\* str.split(sep, maxsplit): the list of parts, at most maxsplit + 1 of them
RECURSIVE split(_, _, _)
split(s, sep, maxsplit) ==
    IF maxsplit = 0 \/ find(s, sep) = 0
    THEN <<s>>
    ELSE <<SubSeq(s, 1, find(s, sep) - 1)>>
         \o split(SubSeq(s, find(s, sep) + 1, Len(s)), sep, maxsplit - 1)

\* pathlib: Path.parent, Path.name, Path.stem, the / operator
PathParent(p) ==
    IF rfind(p, "/") = 0 THEN <<".">> ELSE SubSeq(p, 1, rfind(p, "/") - 1)

PathName(p) == SubSeq(p, rfind(p, "/") + 1, Len(p))

PathStem(p) ==
    LET name == PathName(p)
        i == rfind(name, ".")
    IN  IF i > 1 /\ i < Len(name) THEN SubSeq(name, 1, i - 1) ELSE name

PathJoin(a, b) == IF b = <<>> THEN a ELSE a \o SlashStr \o b

----------------------------------------------------------------------------
(* The model hub and the model resolver *)

NoException == [type |-> "none", msg |-> "none"]

Exception(type, msg) == [type |-> type, msg |-> msg]

NoModel == [kind |-> "none", arg |-> <<>>]

\* vosk.Model(lang=name) and vosk.Model(path)
ModelLang(name) == [kind |-> "lang", arg |-> name]
ModelPath(path) == [kind |-> "path", arg |-> path]

NoResolution ==
    [tars |-> <<>>, model |-> <<>>, file_id |-> None,
     model_str_path |-> <<>>, extracted_path |-> <<>>]

\* Path(args.model).exists()
PathExists(p) == p \in local_paths

\* huggingface_hub.repo_exists(repo_id)
repo_exists(repo_id) == repo_id \in DOMAIN hub

\* HfFileSystem().glob(f"{model_id}/*.tar.gz"): '*' does not cross a '/'
fs_glob(model_id) ==
    LET files == IF model_id \in DOMAIN hub THEN hub[model_id] ELSE {}
        Match(f) == f \in files /\ "/" \notin Range(f) /\ endswith(f, TarGzStr)
        Full(f) == model_id \o SlashStr \o f
        names == SelectSeq(HubFileOrder, Match)
    IN  [i \in 1..Len(names) |-> Full(names[i])]

\* the file id taken from the single glob hit
FileIdOfTar(tar, model_id) == removeprefix(removeprefix(tar, model_id), SlashStr)

\* lines 105-121: the repository and the file to download; file_id stays
\* unbound (None) where no branch assigns it
HfResolveFile(model_id) ==
    IF ":" \in Range(model_id)
    THEN LET parts == split(model_id, ":", 2)
         IN  IF Len(parts) = 2
             THEN [model |-> parts[1], file_id |-> Some(parts[2]), tars |-> <<>>,
                   calls |-> <<>>, raised |-> NoException]
             ELSE [model |-> <<>>, file_id |-> None, tars |-> <<>>,
                   calls |-> <<>>,
                   raised |-> Exception("ValueError", "too_many_values_to_unpack")]
    ELSE LET tars == fs_glob(model_id)
             file_id == IF Len(tars) = 1
                        THEN Some(FileIdOfTar(tars[1], model_id))
                        ELSE None
         IN  [model |-> model_id, file_id |-> file_id, tars |-> tars,
              calls |-> << <<"glob", model_id>> >>,
              raised |-> IF Len(tars) = 0
                         THEN Exception("FileNotFoundError", "archive_not_found")
                         ELSE NoException]

\* line 123: hf_hub_download(model, file_id); reading the unbound local raises
\* before the call is made
HfDownload(r) ==
    IF r.file_id = None
    THEN [calls |-> <<>>, path |-> <<>>,
          raised |-> Exception("UnboundLocalError", "file_id_not_assigned")]
    ELSE IF r.model \in DOMAIN hub /\ r.file_id[1] \in hub[r.model]
    THEN [calls |-> << <<"hf_hub_download", r.model, r.file_id[1]>> >>,
          path |-> PathJoin(CacheDir, r.file_id[1]),
          raised |-> NoException]
    ELSE [calls |-> << <<"hf_hub_download", r.model, r.file_id[1]>> >>,
          path |-> <<>>,
          raised |-> Exception("EntryNotFoundError", "no_such_file_in_repository")]

\* line 124: the extraction directory beside the downloaded file
ExtractedPath(model_str_path) ==
    PathJoin(PathParent(model_str_path),
             split(PathStem(model_str_path), ".", Len(model_str_path))[1])


\* a slip: the is_dir() test is missing
EnterSingleFolder_any(extracted_path, files) ==
    IF Cardinality(files) = 1
    THEN PathJoin(extracted_path, (CHOOSE f \in files : TRUE).name)
    ELSE extracted_path

\* lines 130-132: if there is only one folder in the extracted folder, enter it
EnterSingleFolder(extracted_path, files) ==
    IF Cardinality(files) = 1 /\ (CHOOSE f \in files : TRUE).is_dir
    THEN PathJoin(extracted_path, (CHOOSE f \in files : TRUE).name)
    ELSE extracted_path

load_model_from_huggingface(model_id) ==
    LET r == HfResolveFile(model_id)
        d == HfDownload(r)
        res == [tars |-> r.tars, model |-> r.model, file_id |-> r.file_id,
                model_str_path |-> d.path, extracted_path |-> <<>>]
    IN  IF r.raised # NoException
        THEN [model |-> NoModel, calls |-> r.calls, raised |-> r.raised,
              resolution |-> res]
        ELSE IF d.raised # NoException
        THEN [model |-> NoModel, calls |-> r.calls \o d.calls, raised |-> d.raised,
              resolution |-> res]
        ELSE [model |-> ModelPath(EnterSingleFolder(ExtractedPath(d.path), dir_entries)),
              calls |-> r.calls \o d.calls,
              raised |-> NoException,
              resolution |-> [res EXCEPT !.extracted_path = ExtractedPath(d.path)]]

Resolved(m) ==
    [model |-> m, calls |-> <<>>, raised |-> NoException, resolution |-> NoResolution]

\* vosk_cli main, lines 47-53
select_model_cli(model_arg) ==
    IF model_arg = None THEN Resolved(ModelLang(EnUs))
    ELSE IF PathExists(model_arg[1]) THEN Resolved(ModelPath(model_arg[1]))
    ELSE Resolved(ModelLang(model_arg[1]))


\* a slip: the hub is asked before the filesystem
select_model_tui_hub_first(model_arg) ==
    IF model_arg = None THEN Resolved(ModelLang(EnUs))
    ELSE IF repo_exists(model_arg[1])
    THEN LET h == load_model_from_huggingface(model_arg[1])
         IN  [h EXCEPT !.calls = << <<"repo_exists", model_arg[1]>> >> \o h.calls]
    ELSE IF PathExists(model_arg[1])
    THEN [Resolved(ModelPath(model_arg[1]))
             EXCEPT !.calls = << <<"repo_exists", model_arg[1]>> >>]
    ELSE [Resolved(ModelLang(model_arg[1]))
             EXCEPT !.calls = << <<"repo_exists", model_arg[1]>> >>]

\* vosk_tui main, lines 49-57
select_model_tui(model_arg) ==
    IF model_arg = None THEN Resolved(ModelLang(EnUs))
    ELSE IF PathExists(model_arg[1]) THEN Resolved(ModelPath(model_arg[1]))
    ELSE IF repo_exists(model_arg[1])
    THEN LET h == load_model_from_huggingface(model_arg[1])
         IN  [h EXCEPT !.calls = << <<"repo_exists", model_arg[1]>> >> \o h.calls]
    ELSE [Resolved(ModelLang(model_arg[1]))
             EXCEPT !.calls = << <<"repo_exists", model_arg[1]>> >>]

select_model(model_arg) ==
    IF variant = "tui" THEN select_model_tui(model_arg) ELSE select_model_cli(model_arg)

----------------------------------------------------------------------------
(* The recognizer's results and the sentence log *)

\* texts the recognizer may report in Result()["text"]
FinalTexts == {<<>>, <<" ">>, <<"a">>, <<" ", "a", "\n">>}

\* texts the recognizer may report in PartialResult()["partial"]
PartialTexts == {<<>>, <<"a">>, <<"a", " ", "b">>}

\* values of datetime.now(): the time of day to the second, and the microseconds
Time1 == <<"0", "9", ":", "0", "0", ":", "0", "1">>
Time2 == <<"0", "9", ":", "0", "0", ":", "0", "2">>
Times == {[hms |-> Time1, us |-> 0], [hms |-> Time1, us |-> 500000],
          [hms |-> Time2, us |-> 0]}

\* time.isoformat(timespec='seconds'): the microseconds are dropped
isoformat_seconds(t) == t.hms

GreenOpen == <<"[", "g", "r", "e", "e", "n", "]", "[">>
ResetClose == <<"]", ":", "[", "r", "e", "s", "e", "t", "]", " ">>

\* the f-string of the log entry
log_entry(t, sentence) == GreenOpen \o isoformat_seconds(t) \o ResetClose \o sentence


\* a slip: the text is logged as the recognizer gave it
sentence_of_unstripped(text) == text

\* result["text"].strip()
sentence_of(text) == strip(text)


\* a slip: the emptiness test is missing
on_final_always(sentences, text, t) ==
    Append(sentences, log_entry(t, strip(text)))

\* the Final branch: append the entry if the sentence is not empty
on_final(sentences, text, t) ==
    IF sentence_of(text) # <<>>
    THEN Append(sentences, log_entry(t, sentence_of(text)))
    ELSE sentences


\* a slip: partial texts pile up in the pane
on_partial_keeping(input, text) == input \o text

\* the Partial branch: the new content of the live-input pane
on_partial(input, text) == text


\* a slip: sentences[:MAX_SENTENCES], the oldest entries
TextLog__rich__oldest(sentences) ==
    SubSeq(sentences, 1,
           IF Len(sentences) < MAX_SENTENCES THEN Len(sentences) ELSE MAX_SENTENCES)

\* TextLog.__rich__: self.sentences[-MAX_SENTENCES:]
TextLog__rich__(sentences) ==
    LET n == Len(sentences)
        start == IF n - MAX_SENTENCES < 0 THEN 0 ELSE n - MAX_SENTENCES
    IN  SubSeq(sentences, start + 1, n)

\* what the dashboard renders from the current state
Rendered ==
    [log |-> IF layout.log = "TextLog" THEN TextLog__rich__(completed_sentences)
             ELSE <<>>,
     input |-> layout.input]

\* queue.Queue: put at the tail, get from the head
queue_put(queue, block) == Append(queue, block)

\* a slip: a LifoQueue
queue_get_lifo(queue) ==
    [item |-> queue[Len(queue)], rest |-> SubSeq(queue, 1, Len(queue) - 1)]

queue_get(queue) == [item |-> Head(queue), rest |-> Tail(queue)]

NoLayout == [header |-> "none", footer |-> "none", input |-> <<>>, log |-> "none"]
NoResult == [final |-> FALSE, text |-> <<>>]

----------------------------------------------------------------------------
(* The main thread *)

\* the statements of main inside the try block
InTry(at) == at \notin {"get_args", "exited"}

\* leaving the with blocks: Live first, then the input stream
with_exit(l, st) ==
    (IF l = "started" THEN <<"live_stop">> ELSE <<>>)
    \o (IF st = "open" THEN <<"stream_close">> ELSE <<>>)


\* a slip: the handler sits inside the with blocks
interrupt_events_inside(at, l, st) ==
    IF InTry(at) THEN <<"farewell">> \o with_exit(l, st) ELSE <<"traceback">>

\* what a KeyboardInterrupt arriving at position `at` produces
interrupt_events(at, l, st) ==
    IF InTry(at) THEN with_exit(l, st) \o <<"farewell">> ELSE <<"traceback">>

interrupt_exit_code(at) == IF InTry(at) THEN 0 ELSE 1

Exit(code, evs, exc) ==
    /\ pc' = "exited"
    /\ exit_code' = Some(code)
    /\ events' = events \o evs
    /\ raised' = exc
    /\ live' = IF live = "started" THEN "stopped" ELSE live
    /\ stream' = IF stream = "open" THEN "closed" ELSE stream

get_args ==
    /\ pc = "get_args"
    /\ IF argv.list_devices
       THEN /\ Exit(0, <<"print_devices">>, NoException)
            /\ UNCHANGED args
       ELSE /\ args' = [samplerate |-> argv.samplerate, model |-> argv.model]
            /\ pc' = "samplerate"
            /\ UNCHANGED <<exit_code, events, raised, live, stream>>
    /\ UNCHANGED <<env, model, hf_calls, resolution, layout, q, data,
                   completed_sentences, result, enqueued, fed, lastPartial,
                   interrupted_at>>

FetchSampleRate ==
    /\ pc = "samplerate"
    /\ IF args.samplerate # None
       THEN /\ pc' = "select_model"
            /\ UNCHANGED <<args, exit_code, events, raised, live, stream>>
       ELSE \E found \in BOOLEAN :
              IF found
              THEN /\ args' = [args EXCEPT !.samplerate = Some(44100)]
                   /\ pc' = "select_model"
                   /\ events' = Append(events, "print_samplerate")
                   /\ UNCHANGED <<exit_code, raised, live, stream>>
              ELSE /\ Exit(1, <<"traceback">>,
                           Exception("PortAudioError", "query_devices"))
                   /\ UNCHANGED args
    /\ UNCHANGED <<env, model, hf_calls, resolution, layout, q, data,
                   completed_sentences, result, enqueued, fed, lastPartial,
                   interrupted_at>>

SelectModel ==
    /\ pc = "select_model"
    /\ LET r == select_model(args.model)
       IN  /\ hf_calls' = r.calls
           /\ resolution' = r.resolution
           /\ model' = r.model
           /\ IF r.raised = NoException
              THEN /\ pc' = "layout"
                   /\ UNCHANGED <<exit_code, events, raised, live, stream>>
              ELSE Exit(1, <<"traceback">>, r.raised)
    /\ UNCHANGED <<env, args, layout, q, data, completed_sentences, result,
                   enqueued, fed, lastPartial, interrupted_at>>

CreateLayout ==
    /\ pc = "layout"
    /\ layout' = [header |-> "Header", footer |-> "Footer", input |-> <<>>,
                  log |-> "none"]
    /\ pc' = "open_stream"
    /\ UNCHANGED <<env, args, model, hf_calls, resolution, raised, stream, live, q,
                   data, completed_sentences, result, events, exit_code, enqueued,
                   fed, lastPartial, interrupted_at>>

OpenStream ==
    /\ pc = "open_stream"
    /\ stream' = "open"
    /\ events' = Append(events, "stream_open")
    /\ pc' = "recognizer"
    /\ UNCHANGED <<env, args, model, hf_calls, resolution, raised, layout, live, q,
                   data, completed_sentences, result, exit_code, enqueued, fed,
                   lastPartial, interrupted_at>>

CreateRecognizer ==
    /\ pc = "recognizer"
    /\ completed_sentences' = <<>>
    /\ pc' = "start_live"
    /\ UNCHANGED <<env, args, model, hf_calls, resolution, raised, layout, stream,
                   live, q, data, result, events, exit_code, enqueued, fed,
                   lastPartial, interrupted_at>>

StartLive ==
    /\ pc = "start_live"
    /\ live' = "started"
    /\ events' = Append(events, "live_start")
    /\ layout' = [layout EXCEPT !.log = "TextLog"]
    /\ pc' = "loop_get"
    /\ UNCHANGED <<env, args, model, hf_calls, resolution, raised, stream, q, data,
                   completed_sentences, result, exit_code, enqueued, fed,
                   lastPartial, interrupted_at>>

\* data = q.get(): blocks while the queue is empty
Get ==
    /\ pc = "loop_get"
    /\ q # <<>>
    /\ data' = Some(queue_get(q).item)
    /\ q' = queue_get(q).rest
    /\ pc' = "loop_feed"
    /\ UNCHANGED <<env, args, model, hf_calls, resolution, raised, layout, stream,
                   live, completed_sentences, result, events, exit_code, enqueued,
                   fed, lastPartial, interrupted_at>>

\* rec.AcceptWaveform(data) and the branch taken on its answer
Feed(finals, partials, times) ==
    /\ pc = "loop_feed"
    /\ \E final \in BOOLEAN, t \in times :
         \E text \in (IF final THEN finals ELSE partials) :
           /\ result' = [final |-> final, text |-> text]
           /\ IF final
              THEN /\ completed_sentences' = on_final(completed_sentences, text, t)
                   /\ layout' = IF sentence_of(text) # <<>>
                                THEN [layout EXCEPT !.log = "TextLog"]
                                ELSE layout
                   /\ UNCHANGED lastPartial
              ELSE /\ layout' = [layout EXCEPT !.input = on_partial(layout.input, text)]
                   /\ lastPartial' = text
                   /\ UNCHANGED completed_sentences
    /\ fed' = Append(fed, data[1])
    /\ data' = None
    /\ pc' = "loop_get"
    /\ UNCHANGED <<env, args, model, hf_calls, resolution, raised, stream, live, q,
                   events, exit_code, enqueued, interrupted_at>>

Process == Feed(FinalTexts, PartialTexts, Times)

\* the capture thread: q.put(bytes(indata)) for each audio block
Capture(max) ==
    /\ stream = "open"
    /\ Len(enqueued) < max
    /\ q' = queue_put(q, Len(enqueued) + 1)
    /\ enqueued' = Append(enqueued, Len(enqueued) + 1)
    /\ UNCHANGED <<env, pc, args, model, hf_calls, resolution, raised, layout,
                   stream, live, data, completed_sentences, result, events,
                   exit_code, fed, lastPartial, interrupted_at>>

callback == Capture(MaxBlocks)

\* the user presses Ctrl-C
KeyboardInterrupt ==
    /\ pc # "exited"
    /\ interrupted_at' = pc
    /\ Exit(interrupt_exit_code(pc), interrupt_events(pc, live, stream),
            IF InTry(pc) THEN NoException
            ELSE Exception("KeyboardInterrupt", "uncaught"))
    /\ UNCHANGED <<env, args, model, hf_calls, resolution, layout, q, data,
                   completed_sentences, result, enqueued, fed, lastPartial>>

----------------------------------------------------------------------------
(* Specifications *)

Start ==
    /\ pc = "get_args"
    /\ args = [samplerate |-> None, model |-> None]
    /\ model = NoModel
    /\ hf_calls = <<>>
    /\ resolution = NoResolution
    /\ raised = NoException
    /\ layout = NoLayout
    /\ stream = "none"
    /\ live = "none"
    /\ q = <<>>
    /\ data = None
    /\ completed_sentences = <<>>
    /\ result = NoResult
    /\ events = <<>>
    /\ exit_code = None
    /\ enqueued = <<>>
    /\ fed = <<>>
    /\ lastPartial = <<>>
    /\ interrupted_at = "none"

\* a whole run of either entry point, against a hub holding one archive
Init ==
    /\ variant \in {"cli", "tui"}
    /\ argv \in [list_devices : BOOLEAN, samplerate : {None, Some(16000)},
                 model : {None, Some(RepoUR)}]
    /\ local_paths = {}
    /\ hub \in {RepoUR :> {FileReadme, FileA}, RepoUR :> {FileReadme}}
    /\ dir_entries = {DirM}
    /\ Start

Next ==
    \/ get_args
    \/ FetchSampleRate
    \/ SelectModel
    \/ CreateLayout
    \/ OpenStream
    \/ CreateRecognizer
    \/ StartLive
    \/ Get
    \/ Process
    \/ callback
    \/ KeyboardInterrupt

Spec == Init /\ [][Next]_vars

\* model resolution alone, over every identifier, filesystem and hub content
ModelIds == {Nl, RepoUR, RepoURFileA, RepoURFileB}

Hubs ==
    UNION {{h \in [R -> SUBSET Range(HubFileOrder)] : Nl \in R => h[Nl] = {FileA}} :
           R \in SUBSET {Nl, RepoUR}}

InitResolve ==
    /\ variant \in {"cli", "tui"}
    /\ argv \in [list_devices : {FALSE}, samplerate : {Some(16000)},
                 model : {None} \cup {Some(id) : id \in ModelIds}]
    /\ local_paths \in SUBSET {Nl, RepoUR, RepoURFileA}
    /\ hub \in Hubs
    /\ dir_entries \in {{}, {DirM}, {FileX}, {DirM, FileX}, {DirM, DirN}}
    /\ Start

NextResolve ==
    \/ get_args
    \/ FetchSampleRate
    \/ SelectModel

SpecResolve == InitResolve /\ [][NextResolve]_vars

\* a long session: the same utterance again and again, one completed per second
Digit(d) == <<"0", "1", "2", "3", "4", "5", "6", "7", "8", "9">>[d + 1]

ClockStr(n) ==
    <<"0", "9", ":", Digit((n \div 600) % 6), Digit((n \div 60) % 10), ":",
      Digit((n \div 10) % 6), Digit(n % 10)>>

ProcessLog ==
    Feed({<<"a">>}, {<<"b">>},
         {[hms |-> ClockStr(Len(completed_sentences)), us |-> 0]})

callbackLog == Capture(MaxLogBlocks)

InitLog ==
    /\ variant \in {"cli", "tui"}
    /\ argv = [list_devices |-> FALSE, samplerate |-> Some(16000), model |-> None]
    /\ local_paths = {}
    /\ hub = <<>>
    /\ dir_entries = {}
    /\ Start

NextLog ==
    \/ get_args
    \/ FetchSampleRate
    \/ SelectModel
    \/ CreateLayout
    \/ OpenStream
    \/ CreateRecognizer
    \/ StartLive
    \/ Get
    \/ ProcessLog
    \/ callbackLog

SpecLog == InitLog /\ [][NextLog]_vars

----------------------------------------------------------------------------
(* Properties of the transcript loop *)

\* s is raw with its leading and trailing whitespace removed, and nothing else
IsTrimOf(s, raw) ==
    /\ s = <<>> \/ (s[1] \notin Whitespace /\ s[Len(s)] \notin Whitespace)
    /\ \E i \in 0..Len(raw) :
         /\ i + Len(s) <= Len(raw)
         /\ SubSeq(raw, i + 1, i + Len(s)) = s
         /\ \A k \in 1..i : raw[k] \in Whitespace
         /\ \A k \in (i + Len(s) + 1)..Len(raw) : raw[k] \in Whitespace

\* e is a timestamp prefix followed by the trimmed text of raw
IsStampedEntry(e, raw) ==
    \E t \in Times :
      LET pre == <<"[", "g", "r", "e", "e", "n", "]", "[">> \o t.hms
                 \o <<"]", ":", "[", "r", "e", "s", "e", "t", "]", " ">>
      IN  /\ Len(e) >= Len(pre)
          /\ SubSeq(e, 1, Len(pre)) = pre
          /\ IsTrimOf(SubSeq(e, Len(pre) + 1, Len(e)), raw)

\* this step fed a block to the recognizer
FedStep == fed' # fed

BlankText(text) == \A i \in 1..Len(text) : text[i] \in Whitespace

FinalNonEmptyStep == FedStep /\ result'.final /\ ~BlankText(result'.text)
FinalEmptyStep == FedStep /\ result'.final /\ BlankText(result'.text)
PartialStep == FedStep /\ ~result'.final

\* C1: a Final result with non-blank text appends exactly one entry at the end
\* of the sentence log, earlier entries keep content and order, and the new
\* entry is the timestamp prefix followed by the stripped text.
C1_FinalAppendsOneEntry ==
    [][FinalNonEmptyStep =>
         /\ Len(completed_sentences') = Len(completed_sentences) + 1
         /\ SubSeq(completed_sentences', 1, Len(completed_sentences))
              = completed_sentences
         /\ IsStampedEntry(completed_sentences'[Len(completed_sentences')],
                           result'.text)]_vars

C1_Witness ==
    /\ fed # <<>>
    /\ result = [final |-> TRUE, text |-> <<" ", "a", "\n">>]
    /\ Len(completed_sentences) = 2
    /\ completed_sentences[2] = GreenOpen \o Time2 \o ResetClose \o <<"a">>

\* C2: a Final result whose text is empty or whitespace-only leaves the
\* sentence log unchanged and the loop goes back to awaiting the next block.
C2_EmptyFinalLeavesLog ==
    [][FinalEmptyStep =>
         /\ completed_sentences' = completed_sentences
         /\ pc' = "loop_get"]_vars

C2_Witness ==
    /\ fed # <<>>
    /\ result = [final |-> TRUE, text |-> <<" ">>]
    /\ Len(completed_sentences) = 1
    /\ pc = "loop_get"

\* C3: the rendered sentence-log view holds at most 30 entries, exactly the
\* last min(n, 30) entries of the n-entry log in append order, and the log
\* itself never gets shorter.
ViewIsLastThirty ==
    LET n == Len(completed_sentences)
        m == IF n < 30 THEN n ELSE 30
        view == Rendered.log
    IN  layout.log = "TextLog" =>
          /\ Len(view) = m
          /\ \A i \in 1..m : view[i] = completed_sentences[n - m + i]

C3_ViewIsLastThirty ==
    /\ []ViewIsLastThirty
    /\ [][Len(completed_sentences') >= Len(completed_sentences)]_vars

C3_Witness ==
    /\ layout.log = "TextLog"
    /\ Len(completed_sentences) > 30
    /\ Len(Rendered.log) = 30
    /\ Rendered.log[1] # completed_sentences[1]

\* C8: the blocks fed to AcceptWaveform are always a prefix of the blocks the
\* callback enqueued, in order, none skipped or repeated (fed, then the block
\* in hand, then the queue, are the enqueued blocks); put appends whatever the
\* queue holds, and the loop feeds nothing while it waits on an empty queue.
FedIsPrefix ==
    /\ Len(fed) <= Len(enqueued)
    /\ \A i \in 1..Len(fed) : fed[i] = enqueued[i]
    /\ \A i, j \in 1..Len(fed) : i # j => fed[i] # fed[j]
    /\ fed \o data \o q = enqueued

C8_FifoPrefix ==
    /\ []FedIsPrefix
    /\ [][enqueued' # enqueued =>
            /\ Len(q') = Len(q) + 1
            /\ q'[Len(q')] = enqueued'[Len(enqueued')]]_vars
    /\ [][(pc = "loop_get" /\ q = <<>>) =>
            (fed' = fed /\ data' = data /\ pc' \in {"loop_get", "exited"})]_vars

C8_Witness ==
    /\ Len(fed) = MaxBlocks
    /\ fed = enqueued
    /\ Len(fed) > 1

\* C10: in the transcript loop the live-input pane shows exactly the text of
\* the most recent Partial result (empty before any); a Partial result never
\* changes the sentence log and a Final result never changes the pane.
C10_LivePane ==
    /\ [](pc \in {"loop_get", "loop_feed"} => Rendered.input = lastPartial)
    /\ [][PartialStep => completed_sentences' = completed_sentences]_vars
    /\ [][(FedStep /\ result'.final) => layout'.input = layout.input]_vars

C10_Witness ==
    /\ pc = "loop_get"
    /\ Len(fed) > 1
    /\ result.final
    /\ lastPartial = <<"a", " ", "b">>
    /\ layout.input = <<"a", " ", "b">>
    /\ completed_sentences # <<>>

----------------------------------------------------------------------------
(* Properties of the model resolver *)

\* the Select model statement has run, to a model or to an exception
SelectDone ==
    \/ pc \notin {"get_args", "samplerate", "select_model", "exited"}
    \/ /\ pc = "exited"
       /\ raised.type \in {"FileNotFoundError", "ValueError", "UnboundLocalError",
                           "EntryNotFoundError"}

Qualified(id) == \E i \in 1..Len(id) : id[i] = ":"

\* the archives of a repository: the *.tar.gz files at its top level
Archives(repo) ==
    {f \in hub[repo] :
       /\ \A i \in 1..Len(f) : f[i] # "/"
       /\ Len(f) >= 7
       /\ SubSeq(f, Len(f) - 6, Len(f)) = <<".", "t", "a", "r", ".", "g", "z">>}

Called(name) == \E i \in 1..Len(hf_calls) : hf_calls[i][1] = name

\* the extended variant resolves an unqualified identifier through the hub
HubUnqualified ==
    /\ SelectDone
    /\ variant = "tui"
    /\ args.model # None
    /\ ~Qualified(args.model[1])
    /\ args.model[1] \notin local_paths
    /\ args.model[1] \in DOMAIN hub

\* C4: with zero archives, or more than one, in the repository of an
\* unqualified identifier, resolution fails with a descriptive error (archive
\* not found, respectively ambiguous archive selection) and hf_hub_download is
\* never called.
C4_NoOrManyArchivesFail ==
    (HubUnqualified /\ Cardinality(Archives(args.model[1])) # 1) =>
      /\ pc = "exited"
      /\ ~Called("hf_hub_download")
      /\ Cardinality(Archives(args.model[1])) = 0 =>
           raised = Exception("FileNotFoundError", "archive_not_found")
      /\ Cardinality(Archives(args.model[1])) > 1 =>
           raised = Exception("ValueError", "ambiguous_archive_selection")

\* C5: in the extended variant an identifier repo:file that is no local path
\* and whose repo part is an existing hub repository reaches
\* load_model_from_huggingface, which downloads exactly the named file of that
\* repository without searching for archives; it is not taken for a built-in
\* language pack.
C5_QualifiedGoesToHub ==
    (/\ SelectDone
     /\ variant = "tui"
     /\ args.model # None
     /\ Qualified(args.model[1])
     /\ args.model[1] \notin local_paths
     /\ SubSeq(args.model[1], 1, find(args.model[1], ":") - 1) \in DOMAIN hub) =>
      /\ model.kind # "lang"
      /\ ~Called("glob")
      /\ \E i \in 1..Len(hf_calls) :
           hf_calls[i] =
             <<"hf_hub_download",
               SubSeq(args.model[1], 1, find(args.model[1], ":") - 1),
               SubSeq(args.model[1], find(args.model[1], ":") + 1,
                      Len(args.model[1]))>>

\* C6: resolution is first match wins: no identifier -> the pack en-us; an
\* existing local path -> that path, with no hub call at all; extended variant
\* only, an existing hub repository -> the hub branch; otherwise the built-in
\* pack named by the identifier, with no glob and no download.
C6_FirstMatchWins ==
    SelectDone =>
      IF args.model = None
      THEN model = ModelLang(<<"e", "n", "-", "u", "s">>) /\ hf_calls = <<>>
      ELSE IF args.model[1] \in local_paths
      THEN model = ModelPath(args.model[1]) /\ hf_calls = <<>>
      ELSE IF variant = "tui" /\ args.model[1] \in DOMAIN hub
      THEN /\ hf_calls[1] = <<"repo_exists", args.model[1]>>
           /\ Called("glob")
           /\ model.kind # "lang"
      ELSE /\ model = ModelLang(args.model[1])
           /\ ~Called("glob")
           /\ ~Called("hf_hub_download")
           /\ variant = "cli" => hf_calls = <<>>

C6_Witness ==
    /\ SelectDone
    /\ variant = "tui"
    /\ args.model = Some(RepoUR)
    /\ RepoUR \in local_paths
    /\ RepoUR \in DOMAIN hub
    /\ model = ModelPath(RepoUR)
    /\ hf_calls = <<>>

\* C7: with exactly one archive in the repository of an unqualified
\* identifier, that archive is downloaded (file id = its path relative to the
\* repository) and extracted into a sibling directory of the downloaded file;
\* the model is loaded from the single inner directory if and only if the
\* extraction directory holds exactly one entry and it is a directory, and
\* from the extraction directory itself otherwise.
C7_SingleArchive ==
    (HubUnqualified /\ Cardinality(Archives(args.model[1])) = 1) =>
      LET repo == args.model[1]
          archive == CHOOSE f \in Archives(repo) : TRUE
          file == resolution.model_str_path
          dir == resolution.extracted_path
          single == /\ Cardinality(dir_entries) = 1
                    /\ \A e \in dir_entries : e.is_dir
      IN  /\ pc # "exited"
          /\ hf_calls = << <<"repo_exists", repo>>, <<"glob", repo>>,
                           <<"hf_hub_download", repo, archive>> >>
          /\ dir # file
          /\ PathParent(dir) = PathParent(file)
          /\ model.kind = "path"
          /\ single <=> (\E e \in dir_entries : model.arg = dir \o <<"/">> \o e.name)
          /\ ~single <=> model.arg = dir

C7_Witness ==
    /\ HubUnqualified
    /\ args.model = Some(RepoUR)
    /\ hub[RepoUR] = {FileReadme, FileB, FileSubC}
    /\ dir_entries = {DirM}
    /\ model = ModelPath(<<"c", "/", "b", "/", "m">>)

----------------------------------------------------------------------------
(* Properties of interruption *)

Index(e) == CHOOSE i \in 1..Len(events) : events[i] = e

Happened(e) == \E i \in 1..Len(events) : events[i] = e

\* farewell printed, exit code 0, and whatever was opened was closed first
GracefulExit ==
    /\ pc = "exited"
    /\ exit_code = Some(0)
    /\ Happened("farewell")
    /\ events[Len(events)] = "farewell"
    /\ Happened("stream_open") =>
         /\ Happened("stream_close")
         /\ Index("stream_open") < Index("stream_close")
         /\ Index("stream_close") < Index("farewell")
    /\ Happened("live_start") =>
         /\ Happened("live_stop")
         /\ Index("live_start") < Index("live_stop")
         /\ Index("live_stop") < Index("farewell")

\* C9 as stated: an interruption at any point of a run, argument parsing
\* included, ends with the farewell message, exit code 0, and the stream and
\* the dashboard closed before the message.
C9_AnyInterruptIsGraceful ==
    interrupted_at # "none" => GracefulExit

\* C9 amended: an interruption arriving once argument parsing has returned
\* (sample-rate lookup, model resolution, dashboard set-up, transcript loop)
\* ends with the farewell message, exit code 0, and the stream and the
\* dashboard closed before the message.
C9_InterruptInTryIsGraceful ==
    interrupted_at \notin {"none", "get_args"} => GracefulExit

C9_Witness ==
    /\ interrupted_at = "loop_get"
    /\ fed # <<>>
    /\ events = <<"stream_open", "live_start", "live_stop", "stream_close",
                  "farewell">>
    /\ exit_code = Some(0)

====
